---- MODULE Spec2Model ----
(***************************************************************************)
(* Knowledge-base retrieval pipeline of consultingos                       *)
(* (backend/apps/knowledgebase): the document lifecycle driven by          *)
(* services/processing.py, the Expert aggregates of models.py, the         *)
(* per-expert vector index of services/vector_store.py, the delete         *)
(* endpoint of api.py, query_collection of services/vector_store.py,       *)
(* get_embeddings of services/embedding.py, get_rag_response of            *)
(* services/rag.py and chunk_document of services/chunking.py.             *)
(*                                                                         *)
(* Spec         the document operations, interleaved over two workers      *)
(* SpecSeq      the document operations, one at a time                     *)
(* SpecQuery    one call of query_collection on a collection               *)
(* SpecStore    calls of the vector store by two callers, two experts      *)
(* SpecEmbed    one call of get_embeddings and what its caller stores      *)
(* SpecRag      one chat or quick_query request                            *)
(* SpecChunk    chunk_document on every short text, with scaled sizes      *)
(* SpecDocument chunk_document on markdown and PDF texts, source sizes     *)
(*                                                                         *)
(* The relational store runs in autocommit mode (settings.py sets no       *)
(* ATOMIC_REQUESTS), so every ORM call is one atomic step and a request    *)
(* handler is a sequence of such steps.  A handler works on an in-memory   *)
(* copy of the row (wk[w].doc); Model.save() writes every field of that    *)
(* copy back, and inserts the row when no row with that id exists.         *)
(***************************************************************************)
EXTENDS Integers, Sequences, FiniteSets, TLC

\* ---------------------------------------------------------------- bounds
MaxChunks == 2      \* chunks chunk_document returns for one text
MaxOps == 2         \* operations started, one at a time (SpecSeq)
MaxConcOps == 2     \* operations started, interleaved (Spec)
MaxEntries == 3     \* entries of the collection a query runs on
MaxResults == 3     \* max_results of a query
MaxMinResults == 2  \* min_results of a query

Workers == {"w1", "w2"}
\* extract_text_from_txt: return text, 1
TXT_PAGE_COUNT == 1

VARIABLES
    docs,        \* ExpertDocument rows: function from the existing ids to rows
    nextDocId,   \* the AutoField sequence of ExpertDocument
    chunkRows,   \* DocumentChunk rows
    index,       \* entries of the expert's Chroma collection
    expert,      \* the Expert row: document_count, chunk_count, is_indexed
    opsLeft,     \* operations that may still be started
    wk,          \* per worker: program counter and local variables
    qcoll,       \* query_collection: the collection queried, distance per entry
    qargs,       \* query_collection: max_results, relevance_threshold, min_results
    qrun,        \* query_collection: position, fetched candidates, returned list
    colls,       \* vector store: the collections of the client, by name
    sw,          \* vector store: per caller, the call in progress
    storeOpsLeft, \* vector store: calls that may still be started
    em,          \* get_embeddings: one call and what its caller does with it
    rg,          \* chat / quick_query: one request and its get_rag_response call
    ck           \* chunk_document: the text and the chunks returned for it

lifeVars == <<docs, nextDocId, chunkRows, index, expert, opsLeft, wk>>
queryVars == <<qcoll, qargs, qrun>>
storeVars == <<colls, sw, storeOpsLeft>>
vars == <<docs, nextDocId, chunkRows, index, expert, opsLeft, wk, qcoll, qargs, qrun,
          colls, sw, storeOpsLeft, em, rg, ck>>

\* ------------------------------------------------------- program constants
STATUS_CHOICES == {"pending", "processing", "completed", "failed"}

E_EXTRACT == "Could not decode file with any known encoding"
E_BLANK == "Keine Textinhalte im Dokument gefunden"
E_NOCHUNKS == "Keine Chunks aus dem Dokument erstellt"
E_EMBED == "Embedding API error: 500"
E_ADD == "Error adding chunks to collection"
E_ROW == "IntegrityError: DocumentChunk"

\* ExpertDocument field defaults (status='pending', counts 0, message '')
NewDocument ==
    [status |-> "pending", error_message |-> "", page_count |-> 0, chunk_count |-> 0]

\* Expert field defaults (is_indexed=False, document_count=0, chunk_count=0)
NewExpert ==
    [document_count |-> 0, chunk_count |-> 0, is_indexed |-> FALSE]

NoDoc == [status |-> "none", error_message |-> "", page_count |-> 0, chunk_count |-> 0]

IdleWorker ==
    [pc |-> "idle", op |-> "none", d |-> 0, doc |-> NoDoc,
     n |-> 0, m |-> 0, ids |-> <<>>, i |-> 0, exc |-> "", raised |-> FALSE,
     out |-> "none",
     vids |-> {}, cntDocs |-> 0, cntChunks |-> 0,
     preExpert |-> NewExpert, preRows |-> {}, preIndex |-> {},
     oldRows |-> {}, oldIndex |-> {}]

\* --------------------------------------------------------------- helpers
Min(a, b) == IF a < b THEN a ELSE b

RECURSIVE SumOver(_, _)
SumOver(f, S) ==
    IF S = {} THEN 0
    ELSE LET x == CHOOSE y \in S : TRUE IN f[x] + SumOver(f, S \ {x})

\* Model.save(): UPDATE every field of the row, INSERT when no row matched
SaveRow(table, id, row) ==
    [x \in (DOMAIN table) \cup {id} |-> IF x = id THEN row ELSE table[x]]

\* QuerySet.delete() of one row
DeleteRow(table, id) ==
    [x \in (DOMAIN table) \ {id} |-> table[x]]

\* self.documents.filter(status='completed')
CompletedDocs(table) ==
    {x \in DOMAIN table : table[x].status = "completed"}

\* f"doc_{document_id}_chunk_{i}_{uuid.uuid4().hex[:8]}"
ChromaId(document_id, i, u) == <<document_id, i, u>>

ChunkRowsOf(document_id) == {r \in chunkRows : r.document = document_id}
EntriesOf(document_id) == {e \in index : e.document_id = document_id}

\* a request is handed to the first idle worker
Before(v, w) == v = "w1" /\ w = "w2"

Set(w, fields) == [wk EXCEPT ![w] = fields]
AllIdle == \A w \in Workers : wk[w].pc = "idle"
OthersIdle(w) == \A v \in Workers \ {w} : wk[v].pc = "idle"

\* the state of the query variables where no query is modelled
NoQuery ==
    /\ qcoll = <<>>
    /\ qargs = [max_results |-> 0, relevance_threshold |-> 0, min_results |-> 0]
    /\ qrun = [pc |-> "none", chunks |-> <<>>, result |-> <<>>]

\* the state of the vector-store variables where no direct call is modelled
NoStore ==
    /\ colls = <<>>
    /\ sw = <<>>
    /\ storeOpsLeft = 0

\* the state of the document-lifecycle variables where no operation is modelled
NoLife ==
    /\ docs = <<>>
    /\ nextDocId = 1
    /\ chunkRows = {}
    /\ index = {}
    /\ expert = NewExpert
    /\ opsLeft = 0
    /\ wk = [w \in Workers |-> IdleWorker]

\* ------------------------------------------------------------------ Init
Init ==
    /\ NoQuery /\ NoStore /\ em = <<>> /\ rg = <<>> /\ ck = <<>>
    /\ docs = <<>>
    /\ nextDocId = 1
    /\ chunkRows = {}
    /\ index = {}
    /\ expert = NewExpert
    /\ opsLeft = MaxConcOps
    /\ wk = [w \in Workers |-> IdleWorker]

InitSeq ==
    /\ NoQuery /\ NoStore /\ em = <<>> /\ rg = <<>> /\ ck = <<>>
    /\ docs = <<>>
    /\ nextDocId = 1
    /\ chunkRows = {}
    /\ index = {}
    /\ expert = NewExpert
    /\ opsLeft = MaxOps
    /\ wk = [w \in Workers |-> IdleWorker]

\* ------------------------------------------------- process_document steps
\* mutant: the run starts the pipeline without setting the status
LeaveStatus(doc) == doc


\* doc.status = 'processing'
MarkProcessing(doc) == [doc EXCEPT !.status = "processing"]

\* doc.page_count = page_count
WithPageCount(doc, p) == [doc EXCEPT !.page_count = p]

\* mutant: the completed document keeps the message of an earlier failure
MarkCompletedKeepsMessage(doc, n) ==
    [doc EXCEPT !.chunk_count = n, !.status = "completed"]

\* doc.chunk_count = len(chunks); doc.status = 'completed'; doc.error_message = ''
MarkCompleted(doc, n) ==
    [doc EXCEPT !.chunk_count = n, !.status = "completed", !.error_message = ""]

\* mutant: the handler records the status and forgets the message
MarkFailedNoMessage(doc, e) == [doc EXCEPT !.status = "failed"]

\* mutant: the handler records the message and leaves the status as it is
MarkFailedStillProcessing(doc, e) == [doc EXCEPT !.error_message = e]

\* doc.status = 'failed'; doc.error_message = str(e)
MarkFailed(doc, e) == [doc EXCEPT !.status = "failed", !.error_message = e]

\* the except clause ends without a raise statement
HandlerReraises == FALSE

\* an exception raised inside the try block: control moves to the except clause
Throw(w, e) == Set(w, [wk[w] EXCEPT !.pc = "p_except", !.exc = e])

\* doc = ExpertDocument.objects.get(id=document_id); return when it does not exist
ProcGet(w) ==
    /\ wk[w].pc = "p_get"
    /\ IF wk[w].d \in DOMAIN docs
       THEN wk' = Set(w, [wk[w] EXCEPT !.pc = "p_mark", !.doc = docs[wk[w].d],
                                       !.preExpert = expert, !.preRows = chunkRows,
                                       !.preIndex = index])
       ELSE wk' = Set(w, [wk[w] EXCEPT !.pc = "done", !.out = "notfound"])
    /\ UNCHANGED <<docs, nextDocId, chunkRows, index, expert, opsLeft,
                 queryVars, storeVars, em, rg, ck>>

\* doc.status = 'processing'; doc.save()
ProcMarkProcessing(w) ==
    /\ wk[w].pc = "p_mark"
    /\ LET doc == MarkProcessing(wk[w].doc) IN
        /\ docs' = SaveRow(docs, wk[w].d, doc)
        /\ wk' = Set(w, [wk[w] EXCEPT !.pc = "p_extract", !.doc = doc])
    /\ UNCHANGED <<nextDocId, chunkRows, index, expert, opsLeft,
                 queryVars, storeVars, em, rg, ck>>

\* 1. extract_text raises, returns blank text, or returns text and page_count;
\*    then doc.page_count = page_count; doc.save()
ProcExtract(w) ==
    /\ wk[w].pc = "p_extract"
    /\ \/ /\ \E e \in {E_EXTRACT, E_BLANK} : wk' = Throw(w, e)
          /\ UNCHANGED docs
       \/ LET doc == WithPageCount(wk[w].doc, TXT_PAGE_COUNT) IN
            /\ docs' = SaveRow(docs, wk[w].d, doc)
            /\ wk' = Set(w, [wk[w] EXCEPT !.pc = "p_chunk", !.doc = doc])
    /\ UNCHANGED <<nextDocId, chunkRows, index, expert, opsLeft,
                 queryVars, storeVars, em, rg, ck>>

\* 2. chunks = chunk_document(text); raise when there are none
ProcChunk(w) ==
    /\ wk[w].pc = "p_chunk"
    /\ \E n \in 0..MaxChunks :
         IF n = 0
         THEN wk' = Throw(w, E_NOCHUNKS)
         ELSE wk' = Set(w, [wk[w] EXCEPT !.pc = "p_embed", !.n = n])
    /\ UNCHANGED <<docs, nextDocId, chunkRows, index, expert, opsLeft,
                 queryVars, storeVars, em, rg, ck>>

\* 3. embeddings = get_embeddings(chunk_texts): raises, or returns the vectors
\*    the upstream service sent (as many as it sent)
ProcEmbed(w) ==
    /\ wk[w].pc = "p_embed"
    /\ \/ wk' = Throw(w, E_EMBED)
       \/ \E m \in 1..wk[w].n :
            wk' = Set(w, [wk[w] EXCEPT !.pc = "p_add", !.m = m])
    /\ UNCHANGED <<docs, nextDocId, chunkRows, index, expert, opsLeft,
                 queryVars, storeVars, em, rg, ck>>

\* uuid.uuid4(): a value that occurs in no id the system still holds (the least
\* such number; which one it is cannot be observed)
UuidsInUse ==
    {e.id[3] : e \in index} \cup {r.chroma_id[3] : r \in chunkRows}
    \cup UNION {
        {wk[w].ids[j][3] : j \in 1..Len(wk[w].ids)}
        \cup {x[3] : x \in wk[w].vids}
        \cup {e.id[3] : e \in wk[w].oldIndex \cup wk[w].preIndex}
        \cup {r.chroma_id[3] : r \in wk[w].oldRows \cup wk[w].preRows} : w \in Workers}

FreshUuid == CHOOSE u \in 1..(Cardinality(UuidsInUse) + 1) :
    /\ u \notin UuidsInUse
    /\ \A v \in 1..(u - 1) : v \in UuidsInUse

\* the ids add_chunks_to_collection builds: one per pair of zip(chunks, embeddings)
NewChromaIds(document_id, n, m, u) ==
    [j \in 1..Min(n, m) |-> ChromaId(document_id, j - 1, u)]

\* the entries collection.add stores: id and metadata {document_id, chunk_index}
NewEntries(document_id, ids) ==
    {[id |-> ids[j], document_id |-> document_id, chunk_index |-> j - 1] :
        j \in 1..Len(ids)}

\* 4. chroma_ids = add_chunks_to_collection(...): raises, or adds every entry
ProcAdd(w) ==
    /\ wk[w].pc = "p_add"
    /\ \/ /\ wk' = Throw(w, E_ADD)
          /\ UNCHANGED index
       \/ LET ids == NewChromaIds(wk[w].d, wk[w].n, wk[w].m, FreshUuid) IN
            /\ index' = index \cup NewEntries(wk[w].d, ids)
            /\ wk' = Set(w, [wk[w] EXCEPT !.pc = "p_rows", !.ids = ids, !.i = 0])
    /\ UNCHANGED <<docs, nextDocId, chunkRows, expert, opsLeft,
                 queryVars, storeVars, em, rg, ck>>

\* DocumentChunk(document=doc, chunk_index=i, chroma_id=chroma_id)
NewChunkRow(document_id, i, chroma_id) ==
    [document |-> document_id, chunk_index |-> i, chroma_id |-> chroma_id]

\* 5. one DocumentChunk.objects.create per pair of zip(chunks, chroma_ids); the
\*    INSERT fails on a database error, and always when the document row is gone
ProcCreateRow(w) ==
    /\ wk[w].pc = "p_rows"
    /\ \/ /\ wk' = Throw(w, E_ROW)
          /\ UNCHANGED chunkRows
       \/ /\ wk[w].d \in DOMAIN docs
          /\ chunkRows' = chunkRows \cup
                {NewChunkRow(wk[w].d, wk[w].i, wk[w].ids[wk[w].i + 1])}
          /\ wk' = Set(w, [wk[w] EXCEPT
                !.i = @ + 1,
                !.pc = IF wk[w].i + 1 = Len(wk[w].ids) THEN "p_completed" ELSE "p_rows"])
    /\ UNCHANGED <<docs, nextDocId, index, expert, opsLeft, queryVars, storeVars, em, rg, ck>>

\* 6. doc.chunk_count = len(chunks); status completed; doc.save()
ProcMarkCompleted(w) ==
    /\ wk[w].pc = "p_completed"
    /\ LET doc == MarkCompleted(wk[w].doc, wk[w].n) IN
        /\ docs' = SaveRow(docs, wk[w].d, doc)
        /\ wk' = Set(w, [wk[w] EXCEPT !.pc = "uc_count", !.doc = doc, !.out = "ok"])
    /\ UNCHANGED <<nextDocId, chunkRows, index, expert, opsLeft,
                 queryVars, storeVars, em, rg, ck>>

\* except Exception as e: status failed, error_message = str(e), doc.save()
ProcExcept(w) ==
    /\ wk[w].pc = "p_except"
    /\ LET doc == MarkFailed(wk[w].doc, wk[w].exc) IN
        /\ docs' = SaveRow(docs, wk[w].d, doc)
        /\ wk' = Set(w, [wk[w] EXCEPT !.pc = "done", !.doc = doc, !.out = "failed",
                                       !.raised = HandlerReraises])
    /\ UNCHANGED <<nextDocId, chunkRows, index, expert, opsLeft,
                 queryVars, storeVars, em, rg, ck>>

\* ------------------------------------------------- Expert.update_counts steps
\* self.document_count = self.documents.filter(status='completed').count()
CountCompleted(table) == Cardinality(CompletedDocs(table))

\* self.chunk_count = sum(doc.chunk_count for doc in ...filter(status='completed'))
SumChunkCounts(table) ==
    SumOver([x \in DOMAIN table |-> table[x].chunk_count], CompletedDocs(table))

\* mutant: off by one, an expert without chunks counts as indexed
IsIndexedFromZero(chunk_count) == chunk_count >= 0

\* self.is_indexed = self.chunk_count > 0
IsIndexed(chunk_count) == chunk_count > 0

UcCountDocs(w) ==
    /\ wk[w].pc = "uc_count"
    /\ wk' = Set(w, [wk[w] EXCEPT !.pc = "uc_sum", !.cntDocs = CountCompleted(docs)])
    /\ UNCHANGED <<docs, nextDocId, chunkRows, index, expert, opsLeft,
                 queryVars, storeVars, em, rg, ck>>

UcSumChunks(w) ==
    /\ wk[w].pc = "uc_sum"
    /\ wk' = Set(w, [wk[w] EXCEPT !.pc = "uc_save", !.cntChunks = SumChunkCounts(docs)])
    /\ UNCHANGED <<docs, nextDocId, chunkRows, index, expert, opsLeft,
                 queryVars, storeVars, em, rg, ck>>

\* self.save(update_fields=['document_count', 'chunk_count', 'is_indexed'])
UcSave(w) ==
    /\ wk[w].pc = "uc_save"
    /\ expert' = [document_count |-> wk[w].cntDocs,
                  chunk_count |-> wk[w].cntChunks,
                  is_indexed |-> IsIndexed(wk[w].cntChunks)]
    /\ wk' = Set(w, [wk[w] EXCEPT !.pc = "done"])
    /\ UNCHANGED <<docs, nextDocId, chunkRows, index, opsLeft,
                 queryVars, storeVars, em, rg, ck>>

\* ------------------------------------------- delete_document_chunks steps
\* where the caller of delete_document_chunks goes on
AfterCleanup(op) == IF op = "reprocess" THEN "r_reset" ELSE "d_delete"

\* results = collection.get(where={"document_id": document_id}); an exception
\* of the vector store is logged and swallowed, and the caller goes on
VsGet(w) ==
    /\ wk[w].pc = "v_get"
    /\ \/ wk' = Set(w, [wk[w] EXCEPT !.pc = AfterCleanup(wk[w].op)])
       \/ LET found == {e.id : e \in EntriesOf(wk[w].d)} IN
            wk' = Set(w, [wk[w] EXCEPT
                    !.vids = found,
                    !.pc = IF found = {} THEN AfterCleanup(wk[w].op) ELSE "v_del"])
    /\ UNCHANGED <<docs, nextDocId, chunkRows, index, expert, opsLeft,
                 queryVars, storeVars, em, rg, ck>>

\* collection.delete(ids=results['ids'])
VsDelete(w) ==
    /\ wk[w].pc = "v_del"
    /\ index' = {e \in index : e.id \notin wk[w].vids}
    /\ wk' = Set(w, [wk[w] EXCEPT !.pc = AfterCleanup(wk[w].op)])
    /\ UNCHANGED <<docs, nextDocId, chunkRows, expert, opsLeft,
                 queryVars, storeVars, em, rg, ck>>

\* ------------------------------------------------ reprocess_document steps
\* doc.chunk_count = 0; doc.status = 'pending'; doc.error_message = ''
ResetForReprocess(doc) ==
    [doc EXCEPT !.chunk_count = 0, !.status = "pending", !.error_message = ""]

\* doc = ExpertDocument.objects.get(id=document_id); return when it does not exist
ReprocGet(w) ==
    /\ wk[w].pc = "r_get"
    /\ IF wk[w].d \in DOMAIN docs
       THEN wk' = Set(w, [wk[w] EXCEPT !.pc = "r_rows", !.doc = docs[wk[w].d],
                                       !.oldRows = ChunkRowsOf(wk[w].d),
                                       !.oldIndex = EntriesOf(wk[w].d)])
       ELSE wk' = Set(w, [wk[w] EXCEPT !.pc = "done", !.out = "notfound"])
    /\ UNCHANGED <<docs, nextDocId, chunkRows, index, expert, opsLeft,
                 queryVars, storeVars, em, rg, ck>>

\* doc.chunks.all().delete()
ReprocDeleteRows(w) ==
    /\ wk[w].pc = "r_rows"
    /\ chunkRows' = chunkRows \ ChunkRowsOf(wk[w].d)
    /\ wk' = Set(w, [wk[w] EXCEPT !.pc = "v_get"])
    /\ UNCHANGED <<docs, nextDocId, index, expert, opsLeft, queryVars, storeVars, em, rg, ck>>

\* reset the counts, doc.save(), then process_document(document_id)
ReprocReset(w) ==
    /\ wk[w].pc = "r_reset"
    /\ LET doc == ResetForReprocess(wk[w].doc) IN
        /\ docs' = SaveRow(docs, wk[w].d, doc)
        /\ wk' = Set(w, [wk[w] EXCEPT !.pc = "p_get", !.doc = doc])
    /\ UNCHANGED <<nextDocId, chunkRows, index, expert, opsLeft,
                 queryVars, storeVars, em, rg, ck>>

\* --------------------------------------------------- delete_document steps
\* doc = get_object_or_404(ExpertDocument, id=doc_id, expert=expert)
DelGet(w) ==
    /\ wk[w].pc = "d_get"
    /\ IF wk[w].d \in DOMAIN docs
       THEN wk' = Set(w, [wk[w] EXCEPT !.pc = "v_get", !.doc = docs[wk[w].d]])
       ELSE wk' = Set(w, [wk[w] EXCEPT !.pc = "done", !.out = "notfound"])
    /\ UNCHANGED <<docs, nextDocId, chunkRows, index, expert, opsLeft,
                 queryVars, storeVars, em, rg, ck>>

\* ExpertDocument.delete: super().delete() removes the row and, by the CASCADE
\* of DocumentChunk.document, its chunk rows; then expert.update_counts()
DelRow(w) ==
    /\ wk[w].pc = "d_delete"
    /\ docs' = DeleteRow(docs, wk[w].d)
    /\ chunkRows' = chunkRows \ ChunkRowsOf(wk[w].d)
    /\ wk' = Set(w, [wk[w] EXCEPT !.pc = "uc_count", !.out = "deleted"])
    /\ UNCHANGED <<nextDocId, index, expert, opsLeft, queryVars, storeVars, em, rg, ck>>

\* ------------------------------------------------------------ entry points
\* the document ids a request may name: every id handed out so far, and the
\* next one, which names no document
RequestIds == 1..nextDocId

\* serial: the operation starts only when no other operation is in progress
CanBegin(w, serial) ==
    /\ wk[w].pc = "idle"
    /\ opsLeft > 0
    /\ \A v \in Workers : Before(v, w) => wk[v].pc # "idle"
    /\ serial => OthersIdle(w)

Started(w, op, d, pc) ==
    Set(w, [IdleWorker EXCEPT !.pc = pc, !.op = op, !.d = d])

\* upload_document: ExpertDocument.objects.create(...), then process_document(doc.id)
BeginUpload(w, serial) ==
    /\ CanBegin(w, serial)
    /\ docs' = SaveRow(docs, nextDocId, NewDocument)
    /\ nextDocId' = nextDocId + 1
    /\ opsLeft' = opsLeft - 1
    /\ wk' = Started(w, "upload", nextDocId, "p_get")
    /\ UNCHANGED <<chunkRows, index, expert, queryVars, storeVars, em, rg, ck>>

\* process_document(document_id), called for any document id
BeginProcess(w, serial) ==
    /\ CanBegin(w, serial)
    /\ \E d \in RequestIds :
         wk' = Started(w, "process", d, "p_get")
    /\ opsLeft' = opsLeft - 1
    /\ UNCHANGED <<docs, nextDocId, chunkRows, index, expert,
                 queryVars, storeVars, em, rg, ck>>

\* reprocess_document(document_id)
BeginReprocess(w, serial) ==
    /\ CanBegin(w, serial)
    /\ \E d \in RequestIds :
         wk' = Started(w, "reprocess", d, "r_get")
    /\ opsLeft' = opsLeft - 1
    /\ UNCHANGED <<docs, nextDocId, chunkRows, index, expert,
                 queryVars, storeVars, em, rg, ck>>

\* DELETE /experts/{expert_id}/documents/{doc_id}
BeginDelete(w, serial) ==
    /\ CanBegin(w, serial)
    /\ \E d \in RequestIds :
         wk' = Started(w, "delete", d, "d_get")
    /\ opsLeft' = opsLeft - 1
    /\ UNCHANGED <<docs, nextDocId, chunkRows, index, expert,
                 queryVars, storeVars, em, rg, ck>>

\* the handler has returned; the worker takes the next request
Return(w) ==
    /\ wk[w].pc = "done"
    /\ wk' = Set(w, IdleWorker)
    /\ UNCHANGED <<docs, nextDocId, chunkRows, index, expert, opsLeft,
                 queryVars, storeVars, em, rg, ck>>

Step(w) ==
    \/ ProcGet(w) \/ ProcMarkProcessing(w) \/ ProcExtract(w) \/ ProcChunk(w)
    \/ ProcEmbed(w) \/ ProcAdd(w) \/ ProcCreateRow(w) \/ ProcMarkCompleted(w)
    \/ ProcExcept(w)
    \/ UcCountDocs(w) \/ UcSumChunks(w) \/ UcSave(w)
    \/ VsGet(w) \/ VsDelete(w)
    \/ ReprocGet(w) \/ ReprocDeleteRows(w) \/ ReprocReset(w)
    \/ DelGet(w) \/ DelRow(w)
    \/ Return(w)

Begin(w, serial) ==
    \/ BeginUpload(w, serial) \/ BeginProcess(w, serial)
    \/ BeginReprocess(w, serial) \/ BeginDelete(w, serial)

\* workers interleave freely
Next == \E w \in Workers : Begin(w, FALSE) \/ Step(w)

\* one operation at a time
NextSeq == \E w \in Workers : Begin(w, TRUE) \/ Step(w)

Spec == Init /\ [][Next]_vars
SpecSeq == InitSeq /\ [][NextSeq]_vars

TypeOK ==
    /\ \A d \in DOMAIN docs : docs[d].status \in STATUS_CHOICES
    /\ expert.chunk_count >= 0

\* ------------------------------------------------------- query_collection
\* Cosine distances and thresholds are counted in tenths (5 is 0.5), and
\* similarities in thousandths.
\* get_rag_response: relevance_threshold=0.5
RAG_RELEVANCE_THRESHOLD == 5
\* query_collection: relevance_threshold: float = 0.6
DEFAULT_RELEVANCE_THRESHOLD == 6
\* cosine distance: 0 = identical, 1 = unrelated, 2 = opposite
MAX_DISTANCE == 20

DistanceValues == {0, 4, 5, 6, 7, MAX_DISTANCE}
ThresholdValues == {RAG_RELEVANCE_THRESHOLD, DEFAULT_RELEVANCE_THRESHOLD}

\* similarity = 1 - (distance / 2), rounded to three digits
Similarity(distance) == 1000 - 50 * distance

\* what collection.query(n_results=max_results) may return: the nearest
\* max_results entries, by increasing distance (ties in either order)
NearestLists(coll, n) ==
    LET len == Min(n, Len(coll)) IN
    {s \in [1..len -> DOMAIN coll] :
        /\ \A a, b \in 1..len : a < b => s[a] # s[b] /\ coll[s[a]] <= coll[s[b]]
        /\ \A x \in DOMAIN coll :
             (\A a \in 1..len : s[a] # x) => \A a \in 1..len : coll[s[a]] <= coll[x]}

\* the dict query_collection builds for a fetched entry
ChunkDict(coll, x) ==
    [chunk_index |-> x - 1, distance |-> coll[x], similarity |-> Similarity(coll[x])]

\* mutant: the threshold excludes an entry exactly at the threshold
RelevantChunksStrict(chunks, relevance_threshold) ==
    SelectSeq(chunks, LAMBDA c : c.distance < relevance_threshold)

\* relevant_chunks = [c for c in chunks if c['distance'] <= relevance_threshold]
RelevantChunks(chunks, relevance_threshold) ==
    SelectSeq(chunks, LAMBDA c : c.distance <= relevance_threshold)

\* mutant: the minimum is ensured only when no candidate meets the threshold
EnsureMinimumWhenNone(relevant_chunks, chunks, min_results) ==
    IF relevant_chunks = <<>> /\ min_results > 0 /\ chunks # <<>>
    THEN SubSeq(chunks, 1, Min(min_results, Len(chunks)))
    ELSE relevant_chunks


\* if len(relevant_chunks) < min_results and chunks:
\*     relevant_chunks = chunks[:min_results]
EnsureMinimum(relevant_chunks, chunks, min_results) ==
    IF Len(relevant_chunks) < min_results /\ chunks # <<>>
    THEN SubSeq(chunks, 1, Min(min_results, Len(chunks)))
    ELSE relevant_chunks

\* results = collection.query(...); chunks = one dict per fetched entry
QueryFetch ==
    /\ qrun.pc = "fetch"
    /\ \E s \in NearestLists(qcoll, qargs.max_results) :
         qrun' = [qrun EXCEPT !.pc = "filter",
                              !.chunks = [a \in 1..Len(s) |-> ChunkDict(qcoll, s[a])]]
    /\ UNCHANGED <<qcoll, qargs, lifeVars, storeVars, em, rg, ck>>

\* filter by the threshold, ensure the minimum, return relevant_chunks
QueryReturn ==
    /\ qrun.pc = "filter"
    /\ qrun' = [qrun EXCEPT
            !.pc = "returned",
            !.result = EnsureMinimum(
                RelevantChunks(qrun.chunks, qargs.relevance_threshold),
                qrun.chunks, qargs.min_results)]
    /\ UNCHANGED <<qcoll, qargs, lifeVars, storeVars, em, rg, ck>>

\* one call of query_collection, for every collection and every argument
InitQuery ==
    /\ NoLife /\ NoStore /\ em = <<>> /\ rg = <<>> /\ ck = <<>>
    /\ qcoll \in UNION {[1..k -> DistanceValues] : k \in 0..MaxEntries}
    /\ qargs \in [max_results : 1..MaxResults,
                  relevance_threshold : ThresholdValues,
                  min_results : 0..MaxMinResults]
    /\ qrun = [pc |-> "fetch", chunks |-> <<>>, result |-> <<>>]

NextQuery == QueryFetch \/ QueryReturn

SpecQuery == InitQuery /\ [][NextQuery]_vars

\* ------------------------------------------------------------ vector store
\* The functions of services/vector_store.py called directly, by two callers
\* whose Chroma calls interleave, over the collections of two experts.
MaxStoreOps == 3    \* calls of the vector-store functions started
MaxStoreDocs == 2   \* documents whose chunks are added
MaxStoreChunks == 1 \* chunks of one add_chunks_to_collection call

Experts == {1, 2}

\* ExpertDocument.expert: every document belongs to one Expert, and the
\* callers pass doc.expert_id together with doc.id
ExpertOf(document_id) == ((document_id - 1) % 2) + 1

\* mutant: every expert gets the same collection name
SharedCollectionName(expert_id) == <<"expert_", 0>>

\* get_collection_name: f"expert_{expert_id}"
get_collection_name(expert_id) == <<"expert_", expert_id>>

NoHandle == [name |-> <<>>, uid |-> 0]
NoCollection == [uid |-> 0, entries |-> {}]

\* the collection an expert's name resolves to, if there is one
CollectionOf(expert_id) ==
    IF get_collection_name(expert_id) \in DOMAIN colls
    THEN colls[get_collection_name(expert_id)]
    ELSE NoCollection

\* a Collection object works while the collection it was made for exists
Valid(handle) ==
    /\ handle.name \in DOMAIN colls
    /\ colls[handle.name].uid = handle.uid

IdleCaller ==
    [pc |-> "idle", op |-> "none", expert_id |-> 0, document_id |-> 0, n |-> 0,
     handle |-> NoHandle, ids |-> {}, result |-> {}, exc |-> FALSE,
     swallowed |-> FALSE, pre |-> {}]

SetCaller(w, fields) == [sw EXCEPT ![w] = fields]

\* the id Chroma gives a new collection: one no collection or handle carries
FreshCollectionUid ==
    LET used == {colls[c].uid : c \in DOMAIN colls}
                    \cup {sw[w].handle.uid : w \in Workers}
    IN CHOOSE u \in 1..(Cardinality(used) + 1) :
           u \notin used /\ \A v \in 1..(u - 1) : v \in used

\* uuid.uuid4().hex[:8] of add_chunks_to_collection: a value no entry carries
StoreFreshUuid ==
    LET used == UNION {{e.id[3] : e \in colls[c].entries} : c \in DOMAIN colls}
                    \cup UNION {{x[3] : x \in sw[w].ids}
                                  \cup {e.id[3] : e \in sw[w].pre \cup sw[w].result} :
                                w \in Workers}
    IN CHOOSE u \in 1..(Cardinality(used) + 1) :
           u \notin used /\ \A v \in 1..(u - 1) : v \in used

\* a caller that is not inside a call starts the next one
CanCall(w) ==
    /\ sw[w].pc \in {"idle", "done"}
    /\ storeOpsLeft > 0
    /\ \A v \in Workers : Before(v, w) => sw[v].pc # "idle"

\* the call that follows get_or_create_collection in each function
AfterOpen(op) ==
    CASE op = "add_chunks" -> "add"
      [] op = "query" -> "query"
      [] OTHER -> "get"

\* get_or_create_collection, the first statement of the three functions:
\* client.get_or_create_collection(name=collection_name, ...)
GetOrCreateCollection(w, op, expert_id, document_id, n) ==
    LET name == get_collection_name(expert_id)
        coll == IF name \in DOMAIN colls
                THEN colls[name]
                ELSE [uid |-> FreshCollectionUid, entries |-> {}]
    IN /\ colls' = SaveRow(colls, name, coll)
       /\ sw' = SetCaller(w, [IdleCaller EXCEPT
               !.pc = AfterOpen(op), !.op = op, !.expert_id = expert_id,
               !.document_id = document_id, !.n = n,
               !.handle = [name |-> name, uid |-> coll.uid],
               !.pre = CollectionOf(expert_id).entries])
       /\ storeOpsLeft' = storeOpsLeft - 1
       /\ UNCHANGED <<lifeVars, queryVars, em, rg, ck>>

\* process_document: add_chunks_to_collection(doc.expert_id, doc.id, chunks, embeddings)
BeginAddChunks(w) ==
    /\ CanCall(w)
    /\ \E d \in 1..MaxStoreDocs, n \in 1..MaxStoreChunks :
         GetOrCreateCollection(w, "add_chunks", ExpertOf(d), d, n)

\* get_rag_response: query_collection(expert.id, query_embedding, ...)
BeginQueryCollection(w) ==
    /\ CanCall(w)
    /\ \E e \in Experts : GetOrCreateCollection(w, "query", e, 0, 0)

\* reprocess_document, delete_document: delete_document_chunks(doc.expert_id, doc.id)
BeginDeleteChunks(w) ==
    /\ CanCall(w)
    /\ \E d \in 1..MaxStoreDocs :
         GetOrCreateCollection(w, "delete_chunks", ExpertOf(d), d, 0)

\* collection.add(ids, documents, embeddings, metadatas); an exception is raised again
CollectionAdd(w) ==
    /\ sw[w].pc = "add"
    /\ IF Valid(sw[w].handle)
       THEN LET name == sw[w].handle.name
                ids == NewChromaIds(sw[w].document_id, sw[w].n, sw[w].n, StoreFreshUuid)
            IN /\ colls' = [colls EXCEPT ![name].entries =
                                @ \cup NewEntries(sw[w].document_id, ids)]
               /\ sw' = SetCaller(w, [sw[w] EXCEPT
                       !.pc = "done", !.handle = NoHandle,
                       !.ids = {ids[j] : j \in 1..Len(ids)}])
       ELSE /\ sw' = SetCaller(w, [sw[w] EXCEPT
                       !.pc = "done", !.handle = NoHandle, !.exc = TRUE])
            /\ UNCHANGED colls
    /\ UNCHANGED <<storeOpsLeft, lifeVars, queryVars, em, rg, ck>>

\* collection.query(n_results=max_results): the nearest entries of the collection
CollectionQuery(w) ==
    /\ sw[w].pc = "query"
    /\ IF Valid(sw[w].handle)
       THEN LET entries == colls[sw[w].handle.name].entries IN
            \E r \in SUBSET entries :
                /\ Cardinality(r) = Min(MaxResults, Cardinality(entries))
                /\ sw' = SetCaller(w, [sw[w] EXCEPT
                        !.pc = "done", !.handle = NoHandle, !.result = r])
       ELSE sw' = SetCaller(w, [sw[w] EXCEPT
                  !.pc = "done", !.handle = NoHandle, !.exc = TRUE])
    /\ UNCHANGED <<colls, storeOpsLeft, lifeVars, queryVars, em, rg, ck>>

\* results = collection.get(where={"document_id": document_id}), inside
\* try/except Exception: an exception is logged and the function returns
CollectionGet(w) ==
    /\ sw[w].pc = "get"
    /\ \/ /\ Valid(sw[w].handle)
          /\ LET ids == {e.id : e \in {x \in colls[sw[w].handle.name].entries :
                                           x.document_id = sw[w].document_id}}
             IN sw' = SetCaller(w, [sw[w] EXCEPT
                     !.pc = IF ids # {} THEN "delete" ELSE "done",
                     !.handle = IF ids # {} THEN @ ELSE NoHandle, !.ids = ids])
       \/ sw' = SetCaller(w, [sw[w] EXCEPT
                  !.pc = "done", !.handle = NoHandle, !.swallowed = TRUE])
    /\ UNCHANGED <<colls, storeOpsLeft, lifeVars, queryVars, em, rg, ck>>

\* collection.delete(ids=results['ids']), inside the same try/except
CollectionDelete(w) ==
    /\ sw[w].pc = "delete"
    /\ \/ /\ Valid(sw[w].handle)
          /\ colls' = [colls EXCEPT ![sw[w].handle.name].entries =
                           {e \in @ : e.id \notin sw[w].ids}]
          /\ sw' = SetCaller(w, [sw[w] EXCEPT !.pc = "done", !.handle = NoHandle])
       \/ /\ sw' = SetCaller(w, [sw[w] EXCEPT
                     !.pc = "done", !.handle = NoHandle, !.swallowed = TRUE])
          /\ UNCHANGED colls
    /\ UNCHANGED <<storeOpsLeft, lifeVars, queryVars, em, rg, ck>>

\* delete_expert: delete_expert_collection(expert.id), which is
\* client.delete_collection(collection_name); except Exception: pass
DeleteCollection(w) ==
    /\ CanCall(w)
    /\ \E e \in Experts :
         /\ colls' = DeleteRow(colls, get_collection_name(e))
         /\ sw' = SetCaller(w, [IdleCaller EXCEPT
                 !.pc = "done", !.op = "delete_collection", !.expert_id = e,
                 !.pre = CollectionOf(e).entries])
    /\ storeOpsLeft' = storeOpsLeft - 1
    /\ UNCHANGED <<lifeVars, queryVars, em, rg, ck>>

InitStore ==
    /\ NoLife /\ NoQuery /\ em = <<>> /\ rg = <<>> /\ ck = <<>>
    /\ colls = <<>>
    /\ sw = [w \in Workers |-> IdleCaller]
    /\ storeOpsLeft = MaxStoreOps

NextStore ==
    \E w \in Workers :
        \/ BeginAddChunks(w) \/ BeginQueryCollection(w) \/ BeginDeleteChunks(w)
        \/ CollectionAdd(w) \/ CollectionQuery(w)
        \/ CollectionGet(w) \/ CollectionDelete(w) \/ DeleteCollection(w)

SpecStore == InitStore /\ [][NextStore]_vars


\* ----------------------------------------------------------- get_embeddings
\* One call of get_embeddings(texts) made by process_document, and steps 4
\* and 5 of process_document that use what it returns.  The texts are
\* numbered 1..n; the vector the upstream service produces for text k is
\* written k.
MaxTexts == 5       \* texts of one get_embeddings call
BATCH_SIZE == 2     \* texts of one request (BATCH_SIZE = 50, scaled down)

E_STATUS == "Embedding API error: 500"
E_TIMEOUT == "TimeoutException"

\* batch = texts[i:i + BATCH_SIZE], by the numbers of its texts
Batch(i, n) == (i + 1)..Min(i + BATCH_SIZE, n)

\* what a 200 response may carry in 'data': one item per text the service
\* embedded, under its index in the request, in any order
Responses(i, n) ==
    UNION {{s \in [1..Cardinality(S) -> [index : 0..(BATCH_SIZE - 1), embedding : S]] :
              /\ \A a \in DOMAIN s : s[a].index = s[a].embedding - i - 1
              /\ \A a, b \in DOMAIN s : a # b => s[a] # s[b]} :
           S \in SUBSET Batch(i, n)}

\* sorted(data, key=lambda x: x.get('index', 0)): a stable sort
SortedData(data) ==
    LET rank(a) == Cardinality({b \in DOMAIN data :
                        \/ data[b].index < data[a].index
                        \/ data[b].index = data[a].index /\ b < a}) + 1
    IN [p \in DOMAIN data |-> data[CHOOSE a \in DOMAIN data : rank(a) = p]]

\* mutant: the failure of a batch ends the loop and the vectors so far are returned
ReturnPartial(e) ==
    [em EXCEPT !.pc = "returned", !.exc = e, !.result = em.all_embeddings]

\* raise Exception(f"Embedding API error: ..."), or the re-raised exception
RaiseFromBatch(e) ==
    [em EXCEPT !.pc = "raised", !.exc = e]

\* response = httpx.post(...): a non-200 status or a timeout is raised, a 200
\* response hands over its data
EmbedPost ==
    /\ em.pc = "loop" /\ em.i < em.n
    /\ \/ \E e \in {E_STATUS, E_TIMEOUT} : em' = RaiseFromBatch(e)
       \/ \E data \in Responses(em.i, em.n) :
            em' = [em EXCEPT !.pc = "extend", !.data = data]
    /\ UNCHANGED <<lifeVars, queryVars, storeVars, rg, ck>>

\* sorted_data = sorted(...); all_embeddings.extend(item['embedding'] ...)
EmbedExtend ==
    /\ em.pc = "extend"
    /\ em' = [em EXCEPT
            !.pc = "loop", !.data = <<>>, !.i = em.i + BATCH_SIZE,
            !.all_embeddings = @ \o [p \in DOMAIN em.data |->
                                        SortedData(em.data)[p].embedding]]
    /\ UNCHANGED <<lifeVars, queryVars, storeVars, rg, ck>>

\* return all_embeddings
EmbedReturn ==
    /\ em.pc = "loop" /\ em.i >= em.n
    /\ em' = [em EXCEPT !.pc = "returned", !.result = em.all_embeddings]
    /\ UNCHANGED <<lifeVars, queryVars, storeVars, rg, ck>>

\* process_document steps 4 and 5: one vector entry per pair of
\* zip(chunks, embeddings), one DocumentChunk row per pair of zip(chunks, chroma_ids)
EmbedCallerStores ==
    /\ em.pc = "returned"
    /\ LET m == Min(em.n, Len(em.result)) IN
       em' = [em EXCEPT
            !.pc = "stored",
            !.entries = [j \in 1..m |-> [chunk_index |-> j - 1, embedding |-> em.result[j]]],
            !.rows = [j \in 1..m |-> [chunk_index |-> j - 1]]]
    /\ UNCHANGED <<lifeVars, queryVars, storeVars, rg, ck>>

\* process_document: except Exception as e: doc.status = 'failed'
EmbedCallerExcept ==
    /\ em.pc = "raised"
    /\ em' = [em EXCEPT !.pc = "failed"]
    /\ UNCHANGED <<lifeVars, queryVars, storeVars, rg, ck>>

InitEmbed ==
    /\ NoLife /\ NoQuery /\ NoStore /\ rg = <<>> /\ ck = <<>>
    /\ \E n \in 1..MaxTexts :
         em = [pc |-> "loop", n |-> n, i |-> 0, data |-> <<>>, all_embeddings |-> <<>>,
               result |-> <<>>, exc |-> "", entries |-> <<>>, rows |-> <<>>]

NextEmbed ==
    EmbedPost \/ EmbedExtend \/ EmbedReturn \/ EmbedCallerStores \/ EmbedCallerExcept

SpecEmbed == InitEmbed /\ [][NextEmbed]_vars


\* --------------------------------------------------------- get_rag_response
\* One request of the chat endpoint or of quick_query and the call of
\* get_rag_response it makes.  The conversation of a chat request holds
\* prior messages, numbered in the order of created_at.
MaxPrior == 4       \* messages of the conversation before the request
MaxRagChunks == 2   \* chunks query_collection returns to get_rag_response
HISTORY_LIMIT == 2  \* messages taken from the conversation ([:10], scaled down)

QUESTION == "question"
NO_INFORMATION == "Ich konnte keine relevanten Informationen in den Dokumenten finden."
LlmOutcomes == {"ok", "status", "no_choices", "timeout", "exception"}

\* ExpertMessage rows of the conversation: user and assistant take turns, and
\* the content of the j-th message is the text "j"
PriorMessages(k) ==
    [j \in 1..k |->
        [role |-> IF j % 2 = 1 THEN "user" ELSE "assistant", content |-> ToString(j)]]

\* what get_rag_response returns as response_text after the LLM call
LlmAnswer(outcome) ==
    CASE outcome = "ok" -> "answer"
      [] outcome = "status" -> "Fehler bei der Verarbeitung: 500"
      [] outcome = "no_choices" -> "Keine Antwort vom Modell erhalten."
      [] outcome = "timeout" -> "Zeitueberschreitung bei der Anfrage."
      [] OTHER -> "Fehler: exception"

\* source_chunks: one dict per chunk, in the order of chunks
SourceChunks(chunks) == [j \in 1..chunks |-> [chunk |-> j]]

\* conversation.messages.order_by('created_at')[:10]
History(stored) == SubSeq(stored, 1, Min(HISTORY_LIMIT, Len(stored)))

\* messages: the system message with the context, the history, the question
BuildMessages(chunks, conversation, stored) ==
    <<[role |-> "system", content |-> <<"system_prompt", chunks>>]>>
    \o (IF conversation
        THEN [j \in DOMAIN History(stored) |->
                [role |-> History(stored)[j].role, content |-> History(stored)[j].content]]
        ELSE <<>>)
    \o <<[role |-> "user", content |-> QUESTION]>>

\* mutant: zero chunks are sent to the model like any other result
NeverReturnsSentinel(chunks) == FALSE

\* if not chunks: return "Ich konnte keine ...", []
ReturnsSentinel(chunks) == chunks = 0

\* return answer, source_chunks / return f"Fehler ...", source_chunks
ReturnedLlm(outcome) ==
    [rg EXCEPT !.pc = "returned", !.answer = LlmAnswer(outcome), !.llm_calls = @ + 1,
               !.failure = IF outcome \in {"ok", "no_choices"} THEN "" ELSE outcome]

\* an exception leaves get_rag_response
RagRaise(failure) ==
    [rg EXCEPT !.pc = "raised", !.exc = failure, !.failure = failure]

\* chat: the is_indexed check, then ExpertMessage.objects.create(role='user', ...)
ChatBegin ==
    /\ rg.pc = "begin" /\ rg.via = "chat"
    /\ rg' = IF rg.is_indexed
             THEN [rg EXCEPT !.pc = "embed", !.conversation = TRUE,
                      !.stored = Append(@, [role |-> "user", content |-> QUESTION])]
             ELSE [rg EXCEPT !.pc = "rejected"]
    /\ UNCHANGED <<lifeVars, queryVars, storeVars, em, ck>>

\* quick_query: the is_indexed check, then get_rag_response without a conversation
QuickQueryBegin ==
    /\ rg.pc = "begin" /\ rg.via = "quick_query"
    /\ rg' = [rg EXCEPT !.pc = IF rg.is_indexed THEN "embed" ELSE "rejected"]
    /\ UNCHANGED <<lifeVars, queryVars, storeVars, em, ck>>

\* query_embedding = get_embedding(question, api_key)
RagEmbedQuestion ==
    /\ rg.pc = "embed"
    /\ \/ rg' = RagRaise("embed")
       \/ rg' = [rg EXCEPT !.pc = "query"]
    /\ UNCHANGED <<lifeVars, queryVars, storeVars, em, ck>>

\* chunks = query_collection(...); the sentinel for no chunks; source_chunks
\* and messages otherwise
RagQueryCollection ==
    /\ rg.pc = "query"
    /\ \/ rg' = RagRaise("query")
       \/ \E chunks \in 0..MaxRagChunks :
            rg' = IF ReturnsSentinel(chunks)
                  THEN [rg EXCEPT !.pc = "returned", !.queried = TRUE, !.chunks = chunks,
                           !.answer = NO_INFORMATION, !.sources = <<>>]
                  ELSE [rg EXCEPT !.pc = "llm", !.queried = TRUE, !.chunks = chunks,
                           !.sources = SourceChunks(chunks),
                           !.messages = BuildMessages(chunks, rg.conversation, rg.stored)]
    /\ UNCHANGED <<lifeVars, queryVars, storeVars, em, ck>>

\* response = httpx.post(OPENROUTER_URL, ...) and every return that follows it
RagCallLLM ==
    /\ rg.pc = "llm"
    /\ \E outcome \in LlmOutcomes : rg' = ReturnedLlm(outcome)
    /\ UNCHANGED <<lifeVars, queryVars, storeVars, em, ck>>

\* chat: ExpertMessage.objects.create(role='assistant', ...); quick_query: return
RequestEnd ==
    /\ rg.pc = "returned"
    /\ rg' = IF rg.via = "chat"
             THEN [rg EXCEPT !.pc = "done",
                      !.stored = Append(@, [role |-> "assistant", content |-> rg.answer])]
             ELSE [rg EXCEPT !.pc = "done"]
    /\ UNCHANGED <<lifeVars, queryVars, storeVars, em, ck>>

\* the exception of get_rag_response leaves the request handler
RequestError ==
    /\ rg.pc = "raised"
    /\ rg' = [rg EXCEPT !.pc = "error"]
    /\ UNCHANGED <<lifeVars, queryVars, storeVars, em, ck>>

InitRag ==
    /\ NoLife /\ NoQuery /\ NoStore /\ em = <<>> /\ ck = <<>>
    /\ \E via \in {"chat", "quick_query"}, k \in 0..MaxPrior, is_indexed \in BOOLEAN :
         /\ via = "quick_query" => k = 0
         /\ rg = [pc |-> "begin", via |-> via, is_indexed |-> is_indexed, prior |-> k,
                  conversation |-> FALSE, stored |-> PriorMessages(k),
                  queried |-> FALSE, chunks |-> 0, sources |-> <<>>, messages |-> <<>>,
                  llm_calls |-> 0, answer |-> "", exc |-> "", failure |-> ""]

NextRag ==
    \/ ChatBegin \/ QuickQueryBegin \/ RagEmbedQuestion \/ RagQueryCollection
    \/ RagCallLLM \/ RequestEnd \/ RequestError

SpecRag == InitRag /\ [][NextRag]_vars


\* ------------------------------------------------------------ chunk_document
\* A text is a sequence of characters.  Documents are chunked with the sizes
\* of the source; the texts that are enumerated exhaustively are short, and
\* are chunked with sizes scaled down with them.
MIN_CHUNK_SIZE == 50    \* merge chunks smaller than this
MAX_CHUNK_SIZE == 4000  \* only force-split if exceeding this
MaxTextLen == 6         \* characters of an enumerated text
ScaledMinSize == 2      \* MIN_CHUNK_SIZE for the enumerated texts
ScaledMaxSize == 4      \* MAX_CHUNK_SIZE for the enumerated texts

\* the sizes chunk_document runs with
MinSize == ck.min_size
MaxSize == ck.max_size

NL == "\n"
Whitespace == {" ", NL}
Upper == {"A", "P", "T"}
Lower == {"a", "b", "e", "i", "l", "n", "o", "r", "t", "w"}
Alphabet == {"a", "A", ".", " ", NL}

\* s[a:b] of Python, for positions a..b of the sequence
Slice(s, a, b) == IF a > b THEN <<>> ELSE SubSeq(s, a, b)

\* str.strip()
Strip(s) ==
    LET keep == {i \in DOMAIN s : s[i] \notin Whitespace} IN
    IF keep = {} THEN <<>>
    ELSE Slice(s, CHOOSE i \in keep : \A j \in keep : i <= j,
                  CHOOSE i \in keep : \A j \in keep : j <= i)

\* sep.join(parts)
RECURSIVE Join(_, _)
Join(parts, sep) ==
    IF parts = <<>> THEN <<>>
    ELSE IF Len(parts) = 1 THEN parts[1]
    ELSE parts[1] \o sep \o Join(Tail(parts), sep)

\* the pieces of s between the separators, where match_end[i] is the last
\* position of the separator that starts at position i, or 0 if none does
RECURSIVE SplitAt(_, _, _, _)
SplitAt(s, match_end, i, from) ==
    IF i > Len(s) THEN <<Slice(s, from, Len(s))>>
    ELSE IF match_end[i] = 0 THEN SplitAt(s, match_end, i + 1, from)
    ELSE <<Slice(s, from, i - 1)>>
             \o SplitAt(s, match_end, match_end[i] + 1, match_end[i] + 1)

\* the last position of the run of whitespace that starts at position i
RunEnd(s, i) ==
    CHOOSE j \in i..Len(s) :
        /\ \A x \in i..j : s[x] \in Whitespace
        /\ j = Len(s) \/ s[j + 1] \notin Whitespace

\* text.split('\n')
NewlineEnd(s, i) == IF s[i] = NL THEN i ELSE 0
\* re.split(r'\n\s*\n', content): a newline, whitespace, a newline, greedy
BlankLineEnd(s, i) ==
    IF s[i] = NL /\ \E j \in (i + 1)..RunEnd(s, i) : s[j] = NL
    THEN CHOOSE j \in (i + 1)..RunEnd(s, i) :
             s[j] = NL /\ \A x \in (j + 1)..RunEnd(s, i) : s[x] # NL
    ELSE 0
\* re.split(r'(?<=[.!?])\s+', para): whitespace that follows . ! or ?
SentenceGapEnd(s, i) ==
    IF s[i] \in Whitespace /\ i > 1 /\ s[i - 1] \in {".", "!", "?"}
    THEN RunEnd(s, i) ELSE 0

\* str.split(): the words of a line
Words(line) ==
    SelectSeq(SplitAt(line, [i \in DOMAIN line |-> IF line[i] \in Whitespace THEN i ELSE 0], 1, 1),
              LAMBDA w : w # <<>>)


StartsWith(s, prefix) ==
    Len(s) >= Len(prefix) /\ SubSeq(s, 1, Len(prefix)) = prefix

\* is_heading, for lines without a digit or a colon (no text of the model
\* has one): the markdown rule, the ALL CAPS rule and the short-title rule
is_heading(l) ==
    LET line == Strip(l)
        n == Len(line)
        words == Words(line)
        cased == {i \in DOMAIN line : line[i] \in Upper \cup Lower}
        title_words == Cardinality({j \in DOMAIN words :
                            words[j][1] \in Upper \/ Len(words[j]) <= 3})
    IN IF line = <<>> \/ n > 200 THEN FALSE
       ELSE \/ \E h \in 1..6 : /\ n >= h + 2
                               /\ \A x \in 1..h : line[x] = "#"
                               /\ line[h + 1] \in Whitespace
            \/ /\ cased # {} /\ \A i \in cased : line[i] \in Upper
               /\ 3 < n /\ n < 80
            \/ /\ n < 80 /\ line[1] \in Upper
               /\ line[n] \notin {".", "!", "?", ",", ";", ":"}
               /\ 1 <= Len(words) /\ Len(words) <= 8
               /\ 10 * title_words >= 6 * Len(words)

\* is_list_start, for lines without a digit
is_list_start(l) ==
    LET line == Strip(l) IN
    \/ Len(line) >= 2 /\ line[1] \in {"-", "*"} /\ line[2] \in Whitespace
    \/ /\ Len(line) >= 3 /\ line[1] \in Lower
       /\ line[2] \in {".", ")", "]"} /\ line[3] \in Whitespace

\* line.strip().startswith of three backquotes, a backquote being the
\* character written "backquote" here
is_code_block_marker(line) ==
    StartsWith(Strip(line), <<"backquote", "backquote", "backquote">>)

NewUnit(type, content, has_heading) ==
    [type |-> type, content |-> content, has_heading |-> has_heading]

\* units.append(current_unit), where the code guards it by current_unit['content']
Flush(units, unit) == IF unit.content # <<>> THEN Append(units, unit) ELSE units

\* the body of the loop of split_into_semantic_units for one line
UnitStep(st, line) ==
    LET cur == st.current_unit
        add == [st EXCEPT !.current_unit.content = Append(@, line)]
        start(type, content, has_heading) ==
            [st EXCEPT !.units = Flush(@, cur),
                       !.current_unit = NewUnit(type, content, has_heading)]
    IN IF is_code_block_marker(line)
       THEN IF st.in_code_block
            THEN [add EXCEPT !.in_code_block = FALSE]
            ELSE [start("code", <<line>>, FALSE) EXCEPT !.in_code_block = TRUE]
       ELSE IF st.in_code_block THEN add
       ELSE IF Strip(line) = <<>>
       THEN IF st.consecutive_empty + 1 >= 2 /\ cur.content # <<>>
            THEN [start("paragraph", <<>>, FALSE) EXCEPT !.consecutive_empty = @ + 1]
            ELSE [st EXCEPT !.consecutive_empty = @ + 1]
       ELSE LET s0 == [st EXCEPT !.consecutive_empty = 0]
                add0 == [add EXCEPT !.consecutive_empty = 0]
                start0(type, has_heading) ==
                    [start(type, <<line>>, has_heading) EXCEPT !.consecutive_empty = 0]
            IN IF is_heading(Strip(line)) THEN start0("section", TRUE)
               ELSE IF is_list_start(Strip(line))
               THEN IF cur.type # "list" /\ ~cur.has_heading
                    THEN start0("list", FALSE)
                    ELSE add0
               ELSE IF cur.type = "list"
               THEN IF StartsWith(line, <<" ", " ">>)
                    THEN add0
                    ELSE [s0 EXCEPT !.units = Append(@, cur),
                                    !.current_unit = NewUnit("paragraph", <<line>>, FALSE)]
               ELSE add0

\* a split_into_semantic_units for which every blank line closes the unit
OneUnitPerLine(text) ==
    LET lines == SelectSeq(SplitAt(text, [i \in DOMAIN text |-> NewlineEnd(text, i)], 1, 1),
                           LAMBDA l : Strip(l) # <<>>)
    IN [j \in DOMAIN lines |->
           NewUnit(IF is_heading(lines[j]) THEN "section" ELSE "paragraph",
                   <<lines[j]>>, is_heading(lines[j]))]


split_into_semantic_units(text) ==
    LET RECURSIVE UnitLoop(_, _)
        UnitLoop(s, lines) ==
            IF lines = <<>> THEN s ELSE UnitLoop(UnitStep(s, Head(lines)), Tail(lines))
        st == UnitLoop([units |-> <<>>, current_unit |-> NewUnit("paragraph", <<>>, FALSE),
                        in_code_block |-> FALSE, consecutive_empty |-> 0],
                       SplitAt(text, [i \in DOMAIN text |-> NewlineEnd(text, i)], 1, 1))
    IN Flush(st.units, st.current_unit)


\* len('\n'.join(unit['content']))
JoinedLen(unit) == Len(Join(unit.content, <<NL>>))

\* unit['content'].extend(['', *other['content']])
Extended(unit, other) == [unit EXCEPT !.content = @ \o <<<<>>>> \o other.content]

\* the body of the loop of merge_small_units for one unit; buffer is <<>>
\* for None and <<unit>> otherwise
MergeStep(st, unit) ==
    LET small == JoinedLen(unit) < MinSize /\ ~unit.has_heading IN
    IF st.buffer = <<>>
    THEN IF small THEN [st EXCEPT !.buffer = <<unit>>]
         ELSE [st EXCEPT !.merged = Append(@, unit)]
    ELSE LET buffer == st.buffer[1]
             combined ==
                 [Extended(buffer, unit) EXCEPT
                     !.type = IF unit.has_heading THEN unit.type ELSE buffer.type,
                     !.has_heading = buffer.has_heading \/ unit.has_heading]
         IN IF JoinedLen(buffer) + JoinedLen(unit) + 2 < MaxSize
            THEN IF JoinedLen(combined) >= MinSize
                 THEN [merged |-> Append(st.merged, combined), buffer |-> <<>>]
                 ELSE [st EXCEPT !.buffer = <<combined>>]
            ELSE IF small
                 THEN [merged |-> Append(st.merged, buffer), buffer |-> <<unit>>]
                 ELSE [merged |-> st.merged \o <<buffer, unit>>, buffer |-> <<>>]

merge_small_units(units) ==
    LET RECURSIVE MergeLoop(_, _)
        MergeLoop(s, rest) ==
            IF rest = <<>> THEN s ELSE MergeLoop(MergeStep(s, Head(rest)), Tail(rest))
        st == MergeLoop([merged |-> <<>>, buffer |-> <<>>], units)
        merged == st.merged
        last == Len(merged)
    IN IF st.buffer = <<>> THEN merged
       ELSE IF merged # <<>>
               /\ JoinedLen(merged[last]) + JoinedLen(st.buffer[1]) < MaxSize
       THEN [merged EXCEPT ![last] = Extended(@, st.buffer[1])]
       ELSE Append(merged, st.buffer[1])

\* the loop over the sentences of a paragraph that is itself too large
RECURSIVE SentenceLoop(_, _)
SentenceLoop(st, sentences) ==
    IF sentences = <<>> THEN st
    ELSE LET sent == Head(sentences) IN
         SentenceLoop(
            IF st.sent_len + Len(sent) + 1 <= MaxSize
            THEN [st EXCEPT !.sent_chunk = Append(@, sent),
                            !.sent_len = @ + Len(sent) + 1]
            ELSE [results |-> IF st.sent_chunk # <<>>
                              THEN Append(st.results,
                                       NewUnit("paragraph", <<Join(st.sent_chunk, <<" ">>)>>, FALSE))
                              ELSE st.results,
                  sent_chunk |-> <<Slice(sent, 1, Min(Len(sent), MaxSize))>>,
                  sent_len |-> Min(Len(sent), MaxSize)],
            Tail(sentences))

\* the loop over the paragraphs of an oversized unit
RECURSIVE ParagraphLoop(_, _, _)
ParagraphLoop(st, paragraphs, unit) ==
    IF paragraphs = <<>> THEN st
    ELSE LET para == Strip(Head(paragraphs))
             saved == IF st.current_chunk # <<>>
                      THEN Append(st.results,
                               NewUnit(unit.type, <<Join(st.current_chunk, <<NL, NL>>)>>,
                                       unit.has_heading /\ st.results = <<>>))
                      ELSE st.results
             sents == SentenceLoop([results |-> saved, sent_chunk |-> <<>>, sent_len |-> 0],
                                   SplitAt(para, [i \in DOMAIN para |-> SentenceGapEnd(para, i)], 1, 1))
         IN ParagraphLoop(
                IF para = <<>> THEN st
                ELSE IF st.current_len + Len(para) + 2 <= MaxSize
                THEN [st EXCEPT !.current_chunk = Append(@, para),
                                !.current_len = @ + Len(para) + 2]
                ELSE IF Len(para) > MaxSize
                THEN [results |-> sents.results,
                      current_chunk |-> IF sents.sent_chunk # <<>>
                                        THEN <<Join(sents.sent_chunk, <<" ">>)>> ELSE <<>>,
                      current_len |-> Len(Join(sents.sent_chunk, <<" ">>))]
                ELSE [results |-> saved, current_chunk |-> <<para>>, current_len |-> Len(para)],
                Tail(paragraphs), unit)

\* a split_oversized_unit that returns every unit as it is
KeepOversized(unit) == <<unit>>


split_oversized_unit(unit) ==
    LET content == Join(unit.content, <<NL>>)
        st == ParagraphLoop([results |-> <<>>, current_chunk |-> <<>>, current_len |-> 0],
                            SplitAt(content, [i \in DOMAIN content |-> BlankLineEnd(content, i)], 1, 1),
                            unit)
    IN IF Len(content) <= MaxSize THEN <<unit>>
       ELSE IF st.current_chunk # <<>>
       THEN Append(st.results,
                NewUnit(unit.type, <<Join(st.current_chunk, <<NL, NL>>)>>, FALSE))
       ELSE st.results

\* the tokens extraction puts before the text of a page, "[Seite N]"
PageMarkers == {"[Seite 1]", "[Seite 2]"}

\* re.sub(r'\[Seite \d+\]\s*', '', content)
WithoutMarkers(content) ==
    Join(SplitAt(content,
                 [i \in DOMAIN content |->
                     IF content[i] \notin PageMarkers THEN 0
                     ELSE IF i < Len(content) /\ content[i + 1] \in Whitespace
                     THEN RunEnd(content, i + 1) ELSE i],
                 1, 1), <<>>)

\* extract_page_number: the first marker of the content, None if it has none
extract_page_number(content) ==
    LET at == {i \in DOMAIN content : content[i] \in PageMarkers} IN
    IF at = {} THEN "None" ELSE content[CHOOSE i \in at : \A j \in at : i <= j]

\* chunk_document: the units, merged, the oversized ones split, and one
\* chunk for each final unit whose content without page markers is not blank
chunk_document(text) ==
    LET RECURSIVE SplitAll(_)
        SplitAll(units) ==
            IF units = <<>> THEN <<>>
            ELSE split_oversized_unit(Head(units)) \o SplitAll(Tail(units))
        RECURSIVE OutputChunks(_)
        OutputChunks(final_units) ==
            IF final_units = <<>> THEN <<>>
            ELSE LET content == Strip(Join(Head(final_units).content, <<NL>>))
                     clean_content == Strip(WithoutMarkers(content))
                 IN (IF clean_content # <<>>
                     THEN <<[content |-> clean_content,
                             page_number |-> extract_page_number(content)]>>
                     ELSE <<>>) \o OutputChunks(Tail(final_units))
    IN IF Strip(text) = <<>> THEN <<>>
       ELSE OutputChunks(SplitAll(merge_small_units(split_into_semantic_units(text))))

\* chunks = chunk_document(text)
ChunkDocument ==
    /\ ck.pc = "text"
    /\ ck' = [ck EXCEPT !.pc = "chunked", !.chunks = chunk_document(ck.text)]
    /\ UNCHANGED <<lifeVars, queryVars, storeVars, em, rg>>

InitChunk ==
    /\ NoLife /\ NoQuery /\ NoStore /\ em = <<>> /\ rg = <<>>
    /\ \E text \in UNION {[1..k -> Alphabet] : k \in 0..MaxTextLen} :
           ck = [pc |-> "text", text |-> text, chunks |-> <<>>,
                 min_size |-> ScaledMinSize, max_size |-> ScaledMaxSize]

NextChunk == ChunkDocument

SpecChunk == InitChunk /\ [][NextChunk]_vars

\* extract_text_from_pdf: the pages that are not blank, each behind its marker
extract_text_from_pdf(pages) ==
    LET marker(page_num) == IF page_num = 0 THEN "[Seite 1]" ELSE "[Seite 2]"
        RECURSIVE text_parts(_)
        text_parts(n) ==
            IF n = 0 THEN <<>>
            ELSE text_parts(n - 1)
                     \o (IF Strip(pages[n]) # <<>>
                         THEN <<(<<marker(n - 1), NL>> \o pages[n])>> ELSE <<>>)
    IN Join(text_parts(Len(pages)), <<NL, NL>>)

\* The documents chunk_document is given with the sizes of the source: a
\* markdown heading, a blank line, a paragraph, a blank line, a paragraph;
\* and the text extracted from a PDF of one or two pages, the text of page 1
\* written with "a" and that of page 2 with "b".
InitDocument ==
    LET Title == <<"T", "i", "t", "l", "e">>
        Para == <<"P", "a", "r", "a">>
        headings == {<<"#", " ">> \o Title, <<"#", "#", " ">> \o Title, <<"#", " ", "T">>}
        paragraphs == {Para \o <<" ", "o", "n", "e", ".">>, Para \o <<" ", "t", "w", "o", ".">>,
                       <<"o", "n", "e", ".">>, Para, <<"a", ".", " ", "b">>}
        page(c) == {<<c>>, <<c, NL>>, <<c, ".", " ", c, NL>>, <<" ", NL>>}
        markdown == {h \o <<NL, NL>> \o p \o <<NL, NL>> \o q :
                        h \in headings, p \in paragraphs, q \in paragraphs}
        pdf == {extract_text_from_pdf(<<p>>) : p \in page("a")}
                   \cup {extract_text_from_pdf(<<p, q>>) : p \in page("a"), q \in page("b")}
    IN /\ NoLife /\ NoQuery /\ NoStore /\ em = <<>> /\ rg = <<>>
       /\ \E text \in markdown \cup pdf :
              ck = [pc |-> "text", text |-> text, chunks |-> <<>>,
                    min_size |-> MIN_CHUNK_SIZE, max_size |-> MAX_CHUNK_SIZE]

SpecDocument == InitDocument /\ [][NextChunk]_vars


\* =========================================================== properties
ProcessingOps == {"upload", "process", "reprocess"}

\* the worker's operation has returned and ran process_document on a document
RanPipeline(w) ==
    /\ wk[w].pc = "done"
    /\ wk[w].op \in ProcessingOps
    /\ wk[w].out # "notfound"

\* the operation that takes the step
ActorOps == {wk[w].op : w \in {v \in Workers : wk'[v] # wk[v]}}

\* C1: a document's status is one of pending, processing, completed, failed; it
\* only moves pending -> processing -> completed or failed, and a completed or
\* failed document changes status only in a reprocess_document operation.
C1_StatusTransitions ==
    [][\A d \in (DOMAIN docs) \cap (DOMAIN docs') :
         /\ docs'[d].status \in STATUS_CHOICES
         /\ docs'[d].status # docs[d].status =>
              \/ docs[d].status = "pending" /\ docs'[d].status = "processing"
              \/ docs[d].status = "processing"
                    /\ docs'[d].status \in {"completed", "failed"}
              \/ docs[d].status \in {"completed", "failed"}
                    /\ ActorOps = {"reprocess"}]_vars

\* steps 1-6 of process_document, and its except clause
InPipelineBody(w) ==
    wk[w].pc \in {"p_extract", "p_chunk", "p_embed", "p_add", "p_rows",
                  "p_completed", "p_except"}

NoDuplicateChunkIndex ==
    /\ \A r1, r2 \in chunkRows :
         r1.document = r2.document /\ r1.chunk_index = r2.chunk_index => r1 = r2
    /\ \A e1, e2 \in index :
         e1.document_id = e2.document_id /\ e1.chunk_index = e2.chunk_index => e1 = e2

\* C2: runs for one document are serialized: two workers are never both inside
\* the pipeline body for the same document, and once every run has ended no
\* document has two chunk rows or two vector entries with the same chunk_index.
C2_SerializedPerDocument ==
    /\ \A w, v \in Workers :
         w # v /\ InPipelineBody(w) /\ InPipelineBody(v) => wk[w].d # wk[v].d
    /\ AllIdle => NoDuplicateChunkIndex

\* C3: a run in which one of steps 1-5 raised ends with the document failed,
\* error_message the text of the exception, and nothing raised to the caller.
C3_FailureRecorded ==
    \A w \in Workers :
        RanPipeline(w) /\ wk[w].exc # "" =>
            /\ wk[w].d \in DOMAIN docs
            /\ docs[wk[w].d].status = "failed"
            /\ docs[wk[w].d].error_message = wk[w].exc
            /\ ~wk[w].raised

C3_Witness ==
    \E w \in Workers :
        /\ RanPipeline(w) /\ wk[w].exc = E_ROW /\ wk[w].i = 1
        /\ docs[wk[w].d].status = "failed"

\* C4: whenever no operation is in progress, document_count is the number of
\* completed documents and chunk_count the sum of their chunk_count.
C4_CountsNeverDrift ==
    AllIdle =>
        /\ expert.document_count = CountCompleted(docs)
        /\ expert.chunk_count = SumChunkCounts(docs)

\* C5: the stored is_indexed is true exactly when the stored chunk_count > 0.
C5_IndexedIffChunks ==
    expert.is_indexed <=> (expert.chunk_count > 0)

\* the aggregates were written twice: set by a completed run, cleared by a delete
C5_Witness ==
    \E w \in Workers :
        /\ wk[w].pc = "done" /\ wk[w].op = "delete" /\ wk[w].out = "deleted"
        /\ wk[w].doc.status = "completed"
        /\ ~expert.is_indexed

\* C6: after reprocess_document returns, none of the document's old chunk rows
\* and vector entries is left, and a successful re-run leaves it completed
\* with the chunk_count of the re-run.
C6_ReprocessReplaces ==
    \A w \in Workers :
        RanPipeline(w) /\ wk[w].op = "reprocess" =>
            /\ wk[w].oldRows \cap chunkRows = {}
            /\ wk[w].oldIndex \cap index = {}
            /\ wk[w].exc = "" =>
                  /\ docs[wk[w].d].status = "completed"
                  /\ docs[wk[w].d].chunk_count = wk[w].n

\* C7: a run in which no step raised ends with the document completed,
\* chunk_count the number of chunks, and an empty error_message.
C7_SuccessRecorded ==
    \A w \in Workers :
        RanPipeline(w) /\ wk[w].exc = "" =>
            /\ wk[w].n >= 1
            /\ wk[w].d \in DOMAIN docs
            /\ docs[wk[w].d].status = "completed"
            /\ docs[wk[w].d].chunk_count = wk[w].n
            /\ docs[wk[w].d].error_message = ""

\* a failed document was processed again, and this time every step succeeded
C7_Witness ==
    \E w \in Workers :
        /\ RanPipeline(w) /\ wk[w].exc = "" /\ wk[w].n = MaxChunks
        /\ wk[w].op = "process"
        /\ wk[w].preRows = {} /\ wk[w].preIndex # {}
        /\ docs[wk[w].d].status = "completed"

\* C8: after delete-document returns the row and its chunk rows are gone, no
\* vector entry references the document, and the aggregates are recomputed.
C8_DeleteRemovesAll ==
    \A w \in Workers :
        wk[w].pc = "done" /\ wk[w].op = "delete" /\ wk[w].out = "deleted" =>
            /\ wk[w].d \notin DOMAIN docs
            /\ ChunkRowsOf(wk[w].d) = {}
            /\ EntriesOf(wk[w].d) = {}
            /\ expert.document_count = CountCompleted(docs)
            /\ expert.chunk_count = SumChunkCounts(docs)
            /\ expert.is_indexed = (expert.chunk_count > 0)

ExtractionFailed(w) ==
    RanPipeline(w) /\ wk[w].exc \in {E_EXTRACT, E_BLANK}

\* C9: a run that fails at extraction (an error, or blank text) leaves the
\* Expert aggregates, the chunk rows and the vector index as they were when
\* the run began, and the document failed with a non-empty error_message.
C9_ExtractionFailureFrame ==
    \A w \in Workers :
        ExtractionFailed(w) =>
            /\ expert = wk[w].preExpert
            /\ chunkRows = wk[w].preRows
            /\ index = wk[w].preIndex
            /\ docs[wk[w].d].status = "failed"
            /\ docs[wk[w].d].error_message # ""

\* a completed, indexed document is processed again and extraction fails
C9_Witness ==
    \E w \in Workers :
        /\ ExtractionFailed(w) /\ wk[w].exc = E_BLANK
        /\ wk[w].preExpert.is_indexed
        /\ wk[w].preRows # {} /\ wk[w].preIndex # {}

MeetsThreshold(c) == c.distance <= qargs.relevance_threshold

\* the fetched candidates that meet the threshold, as a set
RelevantFetched ==
    {qrun.chunks[a] : a \in {b \in 1..Len(qrun.chunks) : MeetsThreshold(qrun.chunks[b])}}

\* the position of a chunk in the list of fetched candidates
FetchedAt(c) == CHOOSE a \in 1..Len(qrun.chunks) : qrun.chunks[a] = c

ClosestDistance ==
    CHOOSE m \in {qcoll[x] : x \in DOMAIN qcoll} : \A x \in DOMAIN qcoll : m <= qcoll[x]

\* C11: when fewer than min_results fetched candidates meet the threshold and
\* at least one candidate was fetched, the result is exactly the first
\* min(min_results, number of candidates) candidates, by increasing distance;
\* with min_results = 1 and a threshold that excludes every candidate it is
\* the single closest entry; and with min_results >= 1 the result is never
\* empty when the collection holds an entry.
C11_MinimumFallback ==
    qrun.pc = "returned" =>
        LET r == qrun.result
            chunks == qrun.chunks IN
        /\ Cardinality(RelevantFetched) < qargs.min_results /\ chunks # <<>> =>
             /\ Len(r) = Min(qargs.min_results, Len(chunks))
             /\ \A a \in 1..Len(r) : r[a] = chunks[a]
             /\ \A a, b \in 1..Len(r) : a < b => r[a].distance <= r[b].distance
             /\ \A a \in 1..Len(r) : \A b \in (Len(r) + 1)..Len(chunks) :
                    r[a].distance <= chunks[b].distance
        /\ qargs.min_results = 1 /\ RelevantFetched = {} /\ qcoll # <<>> =>
             Len(r) = 1 /\ r[1].distance = ClosestDistance
        /\ qargs.min_results >= 1 /\ qcoll # <<>> => r # <<>>

\* two entries were fetched, only the first meets the threshold, min_results
\* is 2: the result is both, the second one above the threshold
C11_Witness ==
    /\ qrun.pc = "returned"
    /\ qargs.min_results = 2
    /\ Len(qcoll) = 3
    /\ Len(qrun.chunks) = 2
    /\ MeetsThreshold(qrun.chunks[1]) /\ ~MeetsThreshold(qrun.chunks[2])
    /\ Len(qrun.result) = 2
    /\ ~MeetsThreshold(qrun.result[2])

\* the callers that take the step, and the expert each of them works on
StoreActors == {w \in Workers : sw'[w] # sw[w]}
ActorExpert(w) ==
    IF sw[w].pc \in {"idle", "done"} THEN sw'[w].expert_id ELSE sw[w].expert_id
ActorCall(w) ==
    IF sw[w].pc \in {"idle", "done"} THEN sw'[w].op ELSE sw[w].op

\* the query of a caller has returned its entries
QueryReturned(w) ==
    sw[w].pc = "done" /\ sw[w].op = "query" /\ ~sw[w].exc

\* C12: collections are isolated: a query on an expert's collection returns
\* only entries added under that expert, and a step of a call on one expert
\* (delete_expert_collection included) leaves the collection of every other
\* expert, which determines the result of a query on it, as it was.
C12_CollectionsIsolated ==
    [][/\ \A w \in StoreActors : \A e \in Experts \ {ActorExpert(w)} :
            CollectionOf(e)' = CollectionOf(e)
       /\ \A w \in Workers : sw[w].pc = "query" /\ QueryReturned(w)' =>
            \A x \in sw'[w].result :
                /\ ExpertOf(x.document_id) = sw[w].expert_id
                /\ x \in CollectionOf(sw[w].expert_id).entries]_vars

\* a query on expert 1 returns an entry after the other caller has added
\* entries of a document of expert 2, which the collection of expert 2 holds
C12_Witness ==
    \E w, v \in Workers :
        /\ QueryReturned(w) /\ sw[w].expert_id = 1 /\ sw[w].result # {}
        /\ sw[v].pc = "done" /\ sw[v].op = "add_chunks" /\ sw[v].expert_id = 2
        /\ sw[v].ids # {}
        /\ CollectionOf(2).entries # {}

\* the entries of an expert's collection that belong to a document, or to others
EntriesOfDocument(expert_id, document_id) ==
    {x \in CollectionOf(expert_id).entries : x.document_id = document_id}
EntriesOfOthers(expert_id, document_id) ==
    {x \in CollectionOf(expert_id).entries : x.document_id # document_id}

\* C13: delete_document_chunks(C, d) leaves every entry of C of another
\* document and every other collection unchanged, and when it returns no
\* entry of C that had document_id d when it was called is left.
C13_DeleteDocumentChunks ==
    [][\A w \in StoreActors : ActorCall(w) = "delete_chunks" =>
         \A e \in Experts : e = ActorExpert(w) =>
           \A d \in 1..MaxStoreDocs : d = sw'[w].document_id =>
             /\ \A c \in Experts \ {e} : CollectionOf(c)' = CollectionOf(c)
             /\ EntriesOfOthers(e, d)' = EntriesOfOthers(e, d)
             /\ sw'[w].pc = "done" =>
                  {x \in sw'[w].pre : x.document_id = d} \cap EntriesOfDocument(e, d)' = {}]_vars

\* C19: retrieval is read-only against the vector store: no step of
\* query_collection changes the set of collections or the entries of one,
\* also when the queried expert has no collection.
C19_QueryReadOnly ==
    [][\A w \in StoreActors : ActorCall(w) = "query" => colls' = colls]_vars

\* C14: whenever get_embeddings returns, the result has one vector per text
\* and the vector at position k is the one the service produced for text k.
C14_OrderAndLength ==
    em.pc = "returned" =>
        /\ Len(em.result) = em.n
        /\ \A k \in 1..Len(em.result) : em.result[k] = k

\* C15: when a batch call fails, get_embeddings raises and returns no vector,
\* not even those of the batches that succeeded before, and the run of
\* process_document that called it writes no vector entry and no chunk row.
C15_AllOrNothing ==
    em.exc # "" =>
        /\ em.pc \in {"raised", "failed"}
        /\ em.result = <<>>
        /\ em.entries = <<>> /\ em.rows = <<>>

\* the second batch timed out after the first batch had delivered its vectors
C15_Witness ==
    /\ em.pc = "failed" /\ em.exc = E_TIMEOUT
    /\ em.i = BATCH_SIZE /\ Len(em.all_embeddings) = BATCH_SIZE
    /\ em.entries = <<>> /\ em.rows = <<>>

\* C16: when the vector-store query of a question returns zero chunks,
\* get_rag_response returns the fixed sentinel answer with no sources, does
\* not call the generation service, and raises nothing.
C16_ZeroChunksSentinel ==
    rg.queried /\ rg.chunks = 0 =>
        /\ rg.pc \in {"returned", "done"}
        /\ rg.answer = NO_INFORMATION
        /\ rg.sources = <<>>
        /\ rg.llm_calls = 0
        /\ rg.exc = "" /\ rg.failure = ""

\* a chat request whose query found nothing has stored the sentinel as the
\* assistant's message
C16_Witness ==
    /\ rg.pc = "done" /\ rg.via = "chat"
    /\ rg.queried /\ rg.chunks = 0 /\ rg.llm_calls = 0
    /\ rg.stored[Len(rg.stored)] = [role |-> "assistant", content |-> NO_INFORMATION]

\* C17: a failure of the question's embedding, of the vector-store
\* query or of the generation call is raised to the caller of
\* get_rag_response, never returned as an answer.
C17_FailuresPropagate ==
    rg.failure # "" =>
        /\ rg.pc \in {"raised", "error"}
        /\ rg.exc # "" /\ rg.answer = ""

\* the messages of the conversation that were there before the request
LatestPrior(k) ==
    SubSeq(PriorMessages(k), k - Min(HISTORY_LIMIT, k) + 1, k)

\* C18: the messages sent to the generation service are one system message,
\* the latest min(HISTORY_LIMIT, k) of the k prior messages of the
\* conversation, oldest first and with their roles, and the question last.
C18_LatestHistory ==
    rg.messages # <<>> =>
        /\ rg.messages[1].role = "system"
        /\ SubSeq(rg.messages, 2, Len(rg.messages)) =
               LatestPrior(rg.prior) \o <<[role |-> "user", content |-> QUESTION]>>

\* the characters of a text that are neither whitespace nor a page marker
Visible(s) == SelectSeq(s, LAMBDA c : c \notin Whitespace \cup PageMarkers)

\* C20: chunk_document drops no content: the contents of the returned chunks,
\* concatenated in order, have the non-whitespace characters of the text, in
\* the order of the text (page markers aside), also for a paragraph or a
\* sentence longer than the maximum.
C20_NoContentDropped ==
    ck.pc = "chunked" =>
        Visible(Join([j \in DOMAIN ck.chunks |-> ck.chunks[j].content], <<>>))
            = Visible(ck.text)


\* a sentence with no internal split point: no whitespace after . ! or ?, and
\* no blank line
Unsplittable(s) ==
    \A i \in DOMAIN s : SentenceGapEnd(s, i) = 0 /\ BlankLineEnd(s, i) = 0

\* C21: every chunk chunk_document returns has at most MaxSize
\* characters, unless it is one sentence without a split point that is itself
\* longer than the maximum; merging small units produces no larger chunk.
C21_ChunkSizeBounded ==
    ck.pc = "chunked" =>
        \A j \in DOMAIN ck.chunks :
            \/ Len(ck.chunks[j].content) <= MaxSize
            \/ Unsplittable(ck.chunks[j].content)

\* a text longer than the maximum came back as several chunks
C21_Witness ==
    /\ ck.pc = "chunked"
    /\ Len(Strip(ck.text)) > MaxSize
    /\ Len(ck.chunks) >= 2
    /\ \A j \in DOMAIN ck.chunks : Len(ck.chunks[j].content) <= MaxSize


\* "# Title\n\nPara one.\n\nPara two."
MarkdownExample ==
    <<"#", " ", "T", "i", "t", "l", "e", NL, NL,
      "P", "a", "r", "a", " ", "o", "n", "e", ".", NL, NL,
      "P", "a", "r", "a", " ", "t", "w", "o", ".">>

Contains(s, part) ==
    \E i \in 1..(Len(s) - Len(part) + 1) : SubSeq(s, i, i + Len(part) - 1) = part

\* C22, as claimed: chunk_document of the markdown text "# Title", blank line,
\* "Para one.", blank line, "Para two." returns at least two chunks, the first
\* of which contains the heading text "Title".
C22_HeadingAndTwoChunks ==
    (ck.pc = "chunked" /\ ck.text = MarkdownExample) =>
        /\ Len(ck.chunks) >= 2
        /\ Contains(ck.chunks[1].content, <<"T", "i", "t", "l", "e">>)

\* the parts of the text that single blank lines separate
BlankLineParts == SplitAt(ck.text, [i \in DOMAIN ck.text |-> BlankLineEnd(ck.text, i)], 1, 1)

\* C22, amended: chunk_document of a markdown heading line followed by two
\* one-line paragraphs that are not headings themselves, separated by single
\* blank lines and together shorter than the maximum, returns exactly one
\* chunk: the heading and the two paragraphs, one per line.
C22_HeadingSectionOneChunk ==
    (/\ ck.pc = "chunked"
     /\ Len(BlankLineParts) = 3
     /\ \A j \in 1..3 : BlankLineParts[j] # <<>> /\ \A i \in DOMAIN BlankLineParts[j] : BlankLineParts[j][i] # NL
     /\ BlankLineParts[1][1] = "#" /\ is_heading(BlankLineParts[1])
     /\ ~is_heading(BlankLineParts[2]) /\ ~is_heading(BlankLineParts[3])
     /\ Len(ck.text) < MaxSize)
    => ck.chunks = <<[content |-> Join(BlankLineParts, <<NL>>), page_number |-> "None"]>>

\* the markdown example came back as one chunk that has the heading and both
\* paragraphs
C22_Witness ==
    /\ ck.pc = "chunked"
    /\ ck.text = MarkdownExample
    /\ Len(ck.chunks) = 1
    /\ Contains(ck.chunks[1].content, <<"T", "i", "t", "l", "e">>)
    /\ Contains(ck.chunks[1].content, <<"t", "w", "o", ".">>)


\* the marker of the page whose text is written with the letter c
MarkerOfLetter(c) == IF c = "a" THEN "[Seite 1]" ELSE "[Seite 2]"

\* C23: page numbers survive chunking.  For a text from page-aware extraction
\* no returned chunk has a marker in its content, no returned chunk is blank,
\* and every chunk has as page_number the page its content came from: content
\* of page 2 is returned with page 2.
C23_PageNumbersSurvive ==
    (ck.pc = "chunked" /\ \E i \in DOMAIN ck.text : ck.text[i] \in PageMarkers) =>
        \A j \in DOMAIN ck.chunks :
            LET chunk == ck.chunks[j] IN
            /\ \A i \in DOMAIN chunk.content : chunk.content[i] \notin PageMarkers
            /\ Strip(chunk.content) # <<>>
            /\ \A c \in {"a", "b"} :
                   (\E i \in DOMAIN chunk.content : chunk.content[i] = c)
                       => chunk.page_number = MarkerOfLetter(c)


\* C24: chunk rows and vector entries correspond one to one: whenever no
\* operation is in progress, the chunk rows of every completed document have
\* the chunk_index values 0..chunk_count-1, each once, and the ids of the
\* vector entries stored for the document are the chroma_id values of its
\* rows, also when the embedding service returned fewer vectors than chunks.
C24_RowsMatchEntries ==
    AllIdle =>
        \A d \in CompletedDocs(docs) :
            /\ {r.chunk_index : r \in ChunkRowsOf(d)} = 0..(docs[d].chunk_count - 1)
            /\ Cardinality(ChunkRowsOf(d)) = docs[d].chunk_count
            /\ {e.id : e \in EntriesOf(d)} = {r.chroma_id : r \in ChunkRowsOf(d)}


\* C25: in a processing run, from the moment text extraction is invoked until
\* the run writes completed or failed, the stored status of the document is
\* processing: a run that stops anywhere inside the pipeline body leaves the
\* document as processing, never as pending, completed or failed.
C25_ProcessingUntilOutcome ==
    \A w \in Workers :
        InPipelineBody(w) =>
            /\ wk[w].d \in DOMAIN docs
            /\ docs[wk[w].d].status = "processing"

\* a run on a document that was completed before stands between two chunk
\* rows, or in the except clause before the handler has saved
C25_Witness ==
    \E w \in Workers :
        /\ wk[w].doc.chunk_count > 0
        /\ \/ wk[w].pc = "p_rows" /\ wk[w].i = 1
           \/ wk[w].pc = "p_except" /\ wk[w].exc = E_ADD
        /\ docs[wk[w].d].status = "processing"


\* C26: when two process_document runs for two different documents interleave
\* and both end with the document completed, then after both have finished
\* document_count and chunk_count of the Expert include both documents.
C26_ConcurrentCompletionCounts ==
    \A w, v \in Workers :
        (/\ w # v /\ wk[w].d # wk[v].d
         /\ RanPipeline(w) /\ wk[w].out = "ok"
         /\ RanPipeline(v) /\ wk[v].out = "ok")
        => /\ expert.document_count = CountCompleted(docs)
           /\ expert.chunk_count = SumChunkCounts(docs)


\* C27: whenever no operation is in progress, every entry a query can return
\* (query_collection selects among the entries of the index by distance alone)
\* belongs to a document that exists and is completed; a run that failed after
\* add_chunks_to_collection leaves no entry in the index.
C27_QueryReturnsLiveChunks ==
    AllIdle =>
        \A e \in index :
            /\ e.document_id \in DOMAIN docs
            /\ docs[e.document_id].status = "completed"


\* C28: a delete-document that found the document in a processing run (its
\* status was processing) leaves nothing behind: once the delete and the run
\* have both ended, the document row does not exist, it has no chunk rows,
\* and no vector entry references it.
C28_DeleteDuringProcessing ==
    \A w, v \in Workers :
        (/\ wk[w].pc = "done" /\ wk[w].op = "delete" /\ wk[w].out = "deleted"
         /\ wk[w].doc.status = "processing"
         /\ RanPipeline(v) /\ wk[v].d = wk[w].d)
        => /\ wk[w].d \notin DOMAIN docs
           /\ ChunkRowsOf(wk[w].d) = {}
           /\ EntriesOf(wk[w].d) = {}


\* C29: in a chat request the question reaches the generation service exactly
\* once: of the messages get_rag_response builds, only the last, a user
\* message, has the text of the question, although chat has stored the user
\* message in the conversation before the call.
C29_QuestionOnce ==
    (rg.via = "chat" /\ rg.messages # <<>>) =>
        /\ rg.messages[Len(rg.messages)] = [role |-> "user", content |-> QUESTION]
        /\ \A j \in 1..(Len(rg.messages) - 1) :
               rg.messages[j].role # "system" => rg.messages[j].content # QUESTION


\* C30: a failure of the vector store during cleanup is not lost: the
\* delete-document operation has deleted the document row, and the reprocess
\* operation has reset it, only when no vector entry of the document remains.
C30_CleanupFailureNotLost ==
    \A w \in Workers :
        (\/ wk[w].op = "delete" /\ wk[w].out = "deleted"
         \/ wk[w].op = "reprocess" /\ wk[w].pc = "p_get")
        => EntriesOf(wk[w].d) = {}

====
